---- MODULE Spec2Model ----
(***************************************************************************)
(* DataFetcher (data_fetcher.py): the lazily created singleton connection, *)
(* fetch_data's day loop, fetch_label, fetch_x_data and the time helpers.  *)
(* Time is counted in whole hours; a unix timestamp is the number of hours *)
(* since 1970-01-01 00:00 UTC, a naive local datetime the number of hours  *)
(* since 1970-01-01 00:00 local time.                                      *)
(***************************************************************************)
EXTENDS Integers, Sequences, FiniteSets, TLC

VARIABLES store, now, connection, connects, handles, raised,
          pc, args, start, date_from, date_to, i, label, x_data_list, label_list,
          origin, log, trace, last, labelRet

vars == <<store, now, connection, connects, handles, raised,
          pc, args, start, date_from, date_to, i, label, x_data_list, label_list,
          origin, log, trace, last, labelRet>>

conn_vars == <<connection, connects, handles>>
call_vars == <<pc, args, start, date_from, date_to, i, label, x_data_list, label_list,
               origin, log, trace, last>>

-----------------------------------------------------------------------------
(* Bounds of the model.                                                    *)

MaxDays == 3
MaxRows == 2
MaxTicks == 1
UTCOffset == 1

(* timedelta(days=1), in hours.                                            *)
Day == 24

-----------------------------------------------------------------------------
(* datetime helpers.                                                       *)

\* datetime.fromtimestamp(ts): the naive local datetime of a unix timestamp.
fromtimestamp(ts) == ts + UTCOffset

\* datetime.timestamp() of a naive datetime, which Python reads as local time.
timestamp(dt) == dt - UTCOffset

\* datetime.hour
hour(dt) == dt % Day

\* datetime.weekday(): Monday is 0; 1970-01-01 was a Thursday.
weekday(dt) == ((dt \div Day) + 3) % 7

get_weekday(ts) == weekday(fromtimestamp(ts))

timestamp_to_time_of_day(ts) ==
    LET h == hour(fromtimestamp(ts))
    IN  IF h < 10 THEN "early"
        ELSE IF h < 14 THEN "midday"
        ELSE "late"

-----------------------------------------------------------------------------
(* The store: a set of rows [table, timestamp, n, m, s].  n is `button`    *)
(* (DayRatingType, EventRatingType) or `temperature` (YrType), m is        *)
(* `precipitation` (YrType), s is `channel_name` (SlackType) or `reaction` *)
(* (SlackReactionType).                                                    *)

Row(t, ts, n, m, s) == [table |-> t, timestamp |-> ts, n |-> n, m |-> m, s |-> s]

Saturday == 2 * Day
StartDates == {Saturday, Saturday + 9}

\* Timestamps on a window boundary and inside a window.
Inside0 == timestamp(Saturday + 12)
Inside1 == timestamp(Saturday + Day + 12)
Boundary2 == timestamp(Saturday + 2 * Day)
Inside2 == timestamp(Saturday + 2 * Day + 12)

CandidateRows ==
    {Row("DayRatingType", Inside0, 1, 0, "")}
    \cup {Row("DayRatingType", Inside1, b, 0, "") : b \in {-1, 0, 1}}
    \cup {Row("DayRatingType", Boundary2, 1, 0, "")}
    \cup {Row("DayRatingType", Inside2, 1, 0, "")}
    \cup {Row("SlackType", Inside1, 0, 0, "rant")}
    \cup {Row("SlackType", Boundary2, 0, 0, "general")}
    \cup {Row("SlackReactionType", Inside1, 0, 0, "thumbsup")}
    \cup {Row("GithubType", Inside2, 0, 0, "")}
    \cup {Row("EventRatingType", Inside1, 1, 0, "")}
    \cup {Row("YrType", Inside2, 7, 2, "")}

RECURSIVE SubsetsUpTo(_, _)
SubsetsUpTo(S, k) ==
    IF k = 0 THEN {{}}
    ELSE LET Smaller == SubsetsUpTo(S, k - 1)
         IN  Smaller \cup {T \cup {r} : T \in Smaller, r \in S}

RECURSIVE SumN(_)
SumN(R) == IF R = {} THEN 0
           ELSE LET r == CHOOSE x \in R : TRUE IN r.n + SumN(R \ {r})

RECURSIVE SumM(_)
SumM(R) == IF R = {} THEN 0
           ELSE LET r == CHOOSE x \in R : TRUE IN r.m + SumM(R \ {r})

\* WHERE `timestamp` > %s AND `timestamp` < %s
InWindow(ts, timestamp_from, timestamp_to) ==
    ts > timestamp_from /\ ts < timestamp_to

Select(table, timestamp_from, timestamp_to) ==
    {r \in store : r.table = table
                   /\ InWindow(r.timestamp, timestamp_from, timestamp_to)}

\* An SQL scalar: NULL, or the exact quotient num / den.
NULL == [some |-> FALSE, num |-> 0, den |-> 1]
Quot(num, den) == [some |-> TRUE, num |-> num, den |-> den]

\* Python's None for an optional float.
None == NULL

-----------------------------------------------------------------------------
(* The queries of fetch_x_data, in the order the code issues them, and the *)
(* processing function applied to each result.                             *)

NumQueries == 6

QueryTable(k) ==
    CASE k = 1 -> "SlackType"
      [] k = 2 -> "SlackReactionType"
      [] k = 3 -> "GithubType"
      [] k = 4 -> "EventRatingType"
      [] k = 5 -> "YrType"
      [] k = 6 -> "SlackType"

\* slack_sql with fetchall, each row's `timestamp` replaced by `time_of_day`:
\* the number of rows per time of day.
slack_rows(timestamp_from, timestamp_to) ==
    LET R == Select("SlackType", timestamp_from, timestamp_to)
    IN  [b \in {"early", "midday", "late"} |->
            Cardinality({r \in R : timestamp_to_time_of_day(r.timestamp) = b})]

\* slack_reactions_sql: one row per reaction with its count.
slack_reaction_rows(timestamp_from, timestamp_to) ==
    LET R == Select("SlackReactionType", timestamp_from, timestamp_to)
    IN  {[reaction |-> x, count |-> Cardinality({r \in R : r.s = x})] :
            x \in {r.s : r \in R}}

\* github_sql: COUNT(*)
github_row(timestamp_from, timestamp_to) ==
    Cardinality(Select("GithubType", timestamp_from, timestamp_to))

\* event_rating_sql: (sum(button) / count(button)) * 1000
event_rating_row(timestamp_from, timestamp_to) ==
    LET R == Select("EventRatingType", timestamp_from, timestamp_to)
    IN  IF R = {} THEN NULL ELSE Quot(1000 * SumN(R), Cardinality(R))

\* yr_sql: 10 * avg(temperature), 100 * avg(precipitation)
yr_row(timestamp_from, timestamp_to) ==
    LET R == Select("YrType", timestamp_from, timestamp_to)
    IN  IF R = {} THEN [temp |-> NULL, prec |-> NULL]
        ELSE [temp |-> Quot(10 * SumN(R), Cardinality(R)),
              prec |-> Quot(100 * SumM(R), Cardinality(R))]

\* negative_slack_sql: 1000 * (rows in "rant"/"ubw" / all rows of the window);
\* with no row in those channels `all`.`total_size` is NULL and so is the ratio.
negative_slack_row(timestamp_from, timestamp_to) ==
    LET R == Select("SlackType", timestamp_from, timestamp_to)
        N == {r \in R : r.s \in {"rant", "ubw"}}
    IN  IF N = {} THEN NULL ELSE Quot(1000 * Cardinality(N), Cardinality(R))

\* ProcessingData.process_*: rows in, flat mapping out.
process_slack_data(rows) ==
    ("slack_early" :> rows["early"]) @@ ("slack_midday" :> rows["midday"])
    @@ ("slack_late" :> rows["late"])
process_slack_reaction_data(rows) == ("reactions" :> rows)
process_github_data(row) == ("github_count" :> row)
process_event_rating_data(row) == ("event_rating" :> row)
process_weather_data(row) == ("temperature" :> row.temp) @@ ("precipitation" :> row.prec)
process_slack_negative_data(row) == ("slack_negative" :> row)

\* execute_sql_and_process for the k-th query: the mapping merged into results.
execute_sql_and_process(k, timestamp_from, timestamp_to) ==
    CASE k = 1 -> process_slack_data(slack_rows(timestamp_from, timestamp_to))
      [] k = 2 -> process_slack_reaction_data(
                      slack_reaction_rows(timestamp_from, timestamp_to))
      [] k = 3 -> process_github_data(github_row(timestamp_from, timestamp_to))
      [] k = 4 -> process_event_rating_data(
                      event_rating_row(timestamp_from, timestamp_to))
      [] k = 5 -> process_weather_data(yr_row(timestamp_from, timestamp_to))
      [] k = 6 -> process_slack_negative_data(
                      negative_slack_row(timestamp_from, timestamp_to))

\* dict.update: the keys of `other` overwrite those of `results`.
Update(results, other) == other @@ results

\* Variant: the weekday of the start of the window.
weekday_feature_of_start(timestamp_from, timestamp_to) == get_weekday(timestamp_from)

\* The weekday feature fetch_x_data starts its results with.
weekday_feature(timestamp_from, timestamp_to) == get_weekday(timestamp_to)

RECURSIVE results_after(_, _, _)
results_after(k, timestamp_from, timestamp_to) ==
    IF k = 0
    THEN ("weekday" :> weekday_feature(timestamp_from, timestamp_to))
    ELSE Update(results_after(k - 1, timestamp_from, timestamp_to),
                execute_sql_and_process(k, timestamp_from, timestamp_to))

fetch_x_data(timestamp_from, timestamp_to) ==
    results_after(NumQueries, timestamp_from, timestamp_to)

\* The log entries of one query: the connection is requested, then the
\* statement is executed.
LogEntry(ev, table, timestamp_from, timestamp_to) ==
    [ev |-> ev, table |-> table, from |-> timestamp_from, to |-> timestamp_to,
     at |-> now]

QueryLog(table, timestamp_from, timestamp_to) ==
    <<LogEntry("get_connection", table, timestamp_from, timestamp_to),
      LogEntry("execute", table, timestamp_from, timestamp_to)>>

RECURSIVE XDataLog(_, _, _)
XDataLog(k, timestamp_from, timestamp_to) ==
    IF k = 0 THEN <<>>
    ELSE XDataLog(k - 1, timestamp_from, timestamp_to)
         \o QueryLog(QueryTable(k), timestamp_from, timestamp_to)

-----------------------------------------------------------------------------
(* fetch_label                                                             *)

\* Variant: only Saturday is skipped.
IsWeekend_saturday(timestamp_to) == get_weekday(timestamp_to) = 5

\* if skip_weekend: weekday in [5, 6]
IsWeekend(timestamp_to) == get_weekday(timestamp_to) \in {5, 6}

\* Variant: the comparison is reversed.
IsFuture_reversed(t, timestamp_to) == t > timestamp_to

\* datetime.now().timestamp() < timestamp_to
IsFuture(t, timestamp_to) == t < timestamp_to

\* Variant: the check of the clock is missing.
Filtered_weekend_only(timestamp_to, skip_weekend) ==
    skip_weekend /\ IsWeekend(timestamp_to)

\* The checks that return None before any query.
Filtered(timestamp_to, skip_weekend) ==
    (skip_weekend /\ IsWeekend(timestamp_to)) \/ IsFuture(now, timestamp_to)

\* (((sum(button) / count(button)) + 1) / 2) over DayRatingType
label_ratio(timestamp_from, timestamp_to) ==
    LET R == Select("DayRatingType", timestamp_from, timestamp_to)
    IN  IF R = {} THEN NULL
        ELSE Quot(SumN(R) + Cardinality(R), 2 * Cardinality(R))

\* Variant: the ratio is tested for truth, so 0 counts as None.
RatioIsNotNone_truthy(ratio) == ratio.some /\ ratio.num # 0

\* if query_result["ratio"] is not None: return float(...)
RatioIsNotNone(ratio) == ratio.some

\* The value fetch_label returns when no exception is raised.
fetch_label(timestamp_from, timestamp_to, skip_weekend) ==
    IF Filtered(timestamp_to, skip_weekend) THEN None
    ELSE LET ratio == label_ratio(timestamp_from, timestamp_to)
         IN  IF RatioIsNotNone(ratio) THEN ratio ELSE None

\* fetch_data: if label is not None
LabelIsNotNone(l) == l.some

-----------------------------------------------------------------------------
(* Exceptions and the connection singleton.                                *)

NoError == [op |-> "", type |-> "", msg |-> ""]
Error(op, type, msg) == [op |-> op, type |-> type, msg |-> msg]

\* raise Exception("This class should only be created once.")
OnlyOnceError(op) == Error(op, "Exception", "This class should only be created once.")

\* pymysql.connect fails (or a configuration value is missing).
ConnectError(op) == Error(op, "OperationalError", "connect")

\* cursor.execute fails.
QueryError(op) == Error(op, "OperationalError", "execute")

\* The state of the class attribute after DataFetcher.__init__ ran with
\* __connection None: a new handle when pymysql.connect succeeds.
Connected(ok) == IF ok THEN connects + 1 ELSE connection

\* Variant: every call connects anew.
get_connection_always(ok) ==
    /\ connection' = Connected(ok)
    /\ connects' = IF ok THEN connects + 1 ELSE connects
    /\ handles' = IF ok THEN handles \cup {connection'} ELSE handles

\* DataFetcher.get_connection(): constructs when __connection is None and
\* returns __connection; `ok` tells whether pymysql.connect succeeds.
get_connection(ok) ==
    /\ connection' = IF connection = 0 THEN Connected(ok) ELSE connection
    /\ connects' = IF connection = 0 /\ ok THEN connects + 1 ELSE connects
    /\ handles' = IF connection = 0 /\ ~ok THEN handles
                  ELSE handles \cup {connection'}

ConnectFails(ok) == connection = 0 /\ ~ok

-----------------------------------------------------------------------------
(* Initial state: a store of at most MaxRows rows, no connection, no call. *)

NowStart == timestamp(Saturday + 2 * Day + 12)

NoCall == [some |-> FALSE, args |-> [date_from |-> 0, days |-> 0],
           x |-> <<>>, l |-> <<>>, start |-> 0]

NoLabelRet == [some |-> FALSE, from |-> 0, to |-> 0, skip_weekend |-> FALSE,
               at |-> 0, value |-> None]

Init ==
    /\ store \in SubsetsUpTo(CandidateRows, MaxRows)
    /\ now = NowStart
    /\ connection = 0
    /\ connects = 0
    /\ handles = {}
    /\ raised = NoError
    /\ pc = "idle"
    /\ args = [date_from |-> 0, days |-> 0]
    /\ start = 0
    /\ date_from = 0
    /\ date_to = 0
    /\ i = 0
    /\ label = None
    /\ x_data_list = <<>>
    /\ label_list = <<>>
    /\ origin = <<>>
    /\ log = <<>>
    /\ trace = <<>>
    /\ last = NoCall
    /\ labelRet = NoLabelRet

Idle == pc = "idle"

\* The locals and the result of a finished call are dropped.
Forget ==
    /\ pc' = "idle"
    /\ args' = [date_from |-> 0, days |-> 0]
    /\ start' = 0
    /\ date_from' = 0
    /\ date_to' = 0
    /\ i' = 0
    /\ label' = None
    /\ x_data_list' = <<>>
    /\ label_list' = <<>>
    /\ origin' = <<>>
    /\ log' = <<>>
    /\ trace' = <<>>
    /\ last' = NoCall

-----------------------------------------------------------------------------
(* The wall clock advances by half a day.  Only fetch_label reads it, so a  *)
(* tick while fetch_x_data runs or while a result waits to be taken is the *)
(* same as one right after.                                                *)

Tick ==
    /\ pc \in {"idle", "loop", "returned"}
    /\ now < NowStart + MaxTicks * (Day \div 2)
    /\ now' = now + (Day \div 2)
    /\ UNCHANGED <<store, conn_vars, raised, call_vars, labelRet>>

(* An explicit DataFetcher().                                              *)
Construct ==
    /\ Idle
    /\ \E ok \in BOOLEAN :
          IF connection # 0
          THEN /\ raised' = OnlyOnceError("__init__")
               /\ UNCHANGED conn_vars
          ELSE /\ connection' = Connected(ok)
               /\ connects' = IF ok THEN connects + 1 ELSE connects
               /\ raised' = IF ok THEN NoError ELSE ConnectError("__init__")
               /\ UNCHANGED handles
    /\ UNCHANGED <<store, now, call_vars, labelRet>>

(* A call of DataFetcher.get_connection() by the application.              *)
GetConnection ==
    /\ Idle
    /\ \E ok \in BOOLEAN :
          /\ get_connection(ok)
          /\ raised' = IF ConnectFails(ok) THEN ConnectError("get_connection")
                       ELSE NoError
    /\ UNCHANGED <<store, now, call_vars, labelRet>>

(* A call of fetch_label by the application.                               *)
FetchLabelCall ==
    /\ Idle
    /\ \E d \in StartDates, k \in 0 .. MaxDays - 1, skip_weekend \in BOOLEAN :
          LET timestamp_from == timestamp(d + k * Day)
              timestamp_to == timestamp(d + (k + 1) * Day)
              ret(v, done) ==
                  [some |-> done, from |-> timestamp_from, to |-> timestamp_to,
                   skip_weekend |-> skip_weekend, at |-> now, value |-> v]
          IN  IF Filtered(timestamp_to, skip_weekend)
              THEN /\ labelRet' = ret(None, TRUE)
                   /\ raised' = NoError
                   /\ UNCHANGED conn_vars
              ELSE \E ok \in BOOLEAN : \E fail \in {FALSE, ok} :
                   /\ get_connection(ok)
                   /\ IF ConnectFails(ok)
                      THEN /\ raised' = ConnectError("fetch_label")
                           /\ labelRet' = NoLabelRet
                      ELSE IF fail
                      THEN /\ raised' = QueryError("fetch_label")
                           /\ labelRet' = NoLabelRet
                      ELSE /\ raised' = NoError
                           /\ labelRet' =
                                ret(fetch_label(timestamp_from, timestamp_to,
                                                skip_weekend), TRUE)
    /\ pc' = "label_returned"
    /\ UNCHANGED <<store, now, args, start, date_from, date_to, i, label,
                   x_data_list, label_list, origin, log, trace, last>>

(* The application takes what the last call returned or raised and is free *)
(* to make its next call.                                                  *)
Discard ==
    /\ pc \in {"returned", "raised", "label_returned"}
    /\ Forget
    /\ raised' = NoError
    /\ labelRet' = NoLabelRet
    /\ UNCHANGED <<store, now, conn_vars>>

-----------------------------------------------------------------------------
(* fetch_data                                                              *)

\* The call that has just returned, as the next call remembers it.
ThisCall == [some |-> TRUE, args |-> args, x |-> x_data_list, l |-> label_list,
             start |-> start]

\* x_data_list = []
new_x_data_list == <<>>

\* Variant: the list of the previous call is used again.
new_label_list_shared == label_list

\* label_list = []
new_label_list == <<>>

\* Lines 43-45 for the arguments (d, n); `previous` is what the call
\* before it returned, kept when that call had the same arguments.
StartCall(d, n, previous) ==
    /\ args' = [date_from |-> d, days |-> n]
    /\ date_from' = d
    /\ date_to' = d + Day
    /\ last' = previous
    /\ start' = now
    /\ i' = 0
    /\ label' = None
    /\ x_data_list' = new_x_data_list
    /\ label_list' = new_label_list
    /\ origin' = <<>>
    /\ log' = <<>>
    /\ trace' = <<>>
    /\ pc' = "loop"
    /\ raised' = NoError
    /\ labelRet' = NoLabelRet
    /\ UNCHANGED <<store, now, conn_vars>>

(* fetch_data(date_from, days) is called.                                  *)
FetchData ==
    /\ Idle
    /\ \E d \in StartDates, n \in -1 .. MaxDays : StartCall(d, n, NoCall)

(* fetch_data is called again with the arguments of the call that has just *)
(* returned.                                                               *)
FetchDataAgain ==
    /\ pc = "returned"
    /\ StartCall(args.date_from, args.days, ThisCall)

\* date_to += timedelta(days=1); date_from += timedelta(days=1)
NextDay ==
    /\ date_to' = date_to + Day
    /\ date_from' = date_from + Day
    /\ i' = i + 1

\* What fetch_label returned for one day of the loop, with the window it was
\* given and the clock reading of the call.
TraceEntry(timestamp_from, timestamp_to, l) ==
    [from |-> timestamp_from, to |-> timestamp_to, at |-> now, label |-> l]

(* One iteration up to `if label is not None`: lines 47-51, and lines      *)
(* 56-57 when the label is None.                                           *)
FetchLabelStep ==
    /\ pc = "loop"
    /\ i < args.days
    /\ LET timestamp_from == timestamp(date_from)
           timestamp_to == timestamp(date_to)
       IN  IF Filtered(timestamp_to, TRUE)
           THEN /\ label' = None
                /\ trace' = Append(trace, TraceEntry(timestamp_from, timestamp_to,
                                                     None))
                /\ NextDay
                /\ UNCHANGED <<pc, raised, log, conn_vars>>
           ELSE \E ok \in BOOLEAN : \E fail \in {FALSE, ok} :
                /\ get_connection(ok)
                /\ IF ConnectFails(ok)
                   THEN /\ raised' = ConnectError("fetch_data")
                        /\ pc' = "raised"
                        /\ log' = Append(log, LogEntry("get_connection",
                                     "DayRatingType", timestamp_from, timestamp_to))
                        /\ UNCHANGED <<label, trace, date_from, date_to, i>>
                   ELSE IF fail
                   THEN /\ raised' = QueryError("fetch_data")
                        /\ pc' = "raised"
                        /\ log' = log \o QueryLog("DayRatingType",
                                                  timestamp_from, timestamp_to)
                        /\ UNCHANGED <<label, trace, date_from, date_to, i>>
                   ELSE LET l == fetch_label(timestamp_from, timestamp_to, TRUE)
                        IN  /\ label' = l
                            /\ trace' = Append(trace, TraceEntry(timestamp_from,
                                                                 timestamp_to, l))
                            /\ log' = log \o QueryLog("DayRatingType",
                                                      timestamp_from, timestamp_to)
                            /\ raised' = NoError
                            /\ IF LabelIsNotNone(l)
                               THEN /\ pc' = "x_data"
                                    /\ UNCHANGED <<date_from, date_to, i>>
                               ELSE /\ pc' = "loop"
                                    /\ NextDay
    /\ UNCHANGED <<store, now, args, start, x_data_list, label_list, origin,
                   last, labelRet>>

\* Variant: the label is inserted at the front of label_list.
XDataSucceeds_prepend(timestamp_from, timestamp_to) ==
    /\ x_data_list' = Append(x_data_list, fetch_x_data(timestamp_from, timestamp_to))
    /\ label_list' = <<label>> \o label_list
    /\ origin' = Append(origin, [from |-> timestamp_from, to |-> timestamp_to])
    /\ log' = log \o XDataLog(NumQueries, timestamp_from, timestamp_to)
    /\ NextDay
    /\ pc' = "loop"
    /\ UNCHANGED raised

\* Lines 52-57 when every query of fetch_x_data succeeds.
XDataSucceeds(timestamp_from, timestamp_to) ==
    /\ x_data_list' = Append(x_data_list, fetch_x_data(timestamp_from, timestamp_to))
    /\ label_list' = Append(label_list, label)
    /\ origin' = Append(origin, [from |-> timestamp_from, to |-> timestamp_to])
    /\ log' = log \o XDataLog(NumQueries, timestamp_from, timestamp_to)
    /\ NextDay
    /\ pc' = "loop"
    /\ UNCHANGED raised

\* Variant: the exception is swallowed and the features gathered so far
\* are kept.
XDataFails_partial(fail, timestamp_from, timestamp_to) ==
    /\ x_data_list' = Append(x_data_list,
                             results_after(fail - 1, timestamp_from, timestamp_to))
    /\ label_list' = Append(label_list, label)
    /\ origin' = Append(origin, [from |-> timestamp_from, to |-> timestamp_to])
    /\ log' = log \o XDataLog(fail, timestamp_from, timestamp_to)
    /\ raised' = QueryError("fetch_data")
    /\ NextDay
    /\ pc' = "loop"

\* Line 52 when the query number `fail` raises: the exception leaves
\* fetch_x_data and fetch_data.
XDataFails(fail, timestamp_from, timestamp_to) ==
    /\ log' = log \o XDataLog(fail, timestamp_from, timestamp_to)
    /\ raised' = QueryError("fetch_data")
    /\ pc' = "raised"
    /\ UNCHANGED <<x_data_list, label_list, origin, date_from, date_to, i>>

(* The rest of an iteration whose label is not None: lines 52-57.  `fail`  *)
(* is the number of the query that fails, 0 when none does.                *)
FetchXDataStep ==
    /\ pc = "x_data"
    /\ LET timestamp_from == timestamp(date_from)
           timestamp_to == timestamp(date_to)
       IN  \E fail \in 0 .. NumQueries :
           IF fail = 0
           THEN XDataSucceeds(timestamp_from, timestamp_to)
           ELSE XDataFails(fail, timestamp_from, timestamp_to)
    /\ handles' = handles \cup {connection}
    /\ UNCHANGED <<store, now, connection, connects, args, start, label, trace,
                   last, labelRet>>

(* return x_data_list, label_list: line 58.                                *)
Return ==
    /\ pc = "loop"
    /\ i >= args.days
    /\ pc' = "returned"
    /\ UNCHANGED <<store, now, conn_vars, raised, args, start, date_from, date_to, i,
                   label, x_data_list, label_list, origin, log, trace, last,
                   labelRet>>

Next ==
    \/ Tick
    \/ Construct
    \/ GetConnection
    \/ FetchLabelCall
    \/ Discard
    \/ FetchData
    \/ FetchDataAgain
    \/ FetchLabelStep
    \/ FetchXDataStep
    \/ Return

Spec == Init /\ [][Next]_vars

-----------------------------------------------------------------------------
(* Reference notions the properties are stated with.                       *)

\* Local weekday of a unix timestamp, Monday = 0 (1970-01-01: Thursday).
RefWeekday(ts) == (((ts + UTCOffset) \div Day) + 3) % 7

\* The rating rows the label query of a window selects.
Ratings(w) ==
    {r \in store : r.table = "DayRatingType"
                   /\ w.from < r.timestamp /\ r.timestamp < w.to}

\* The positions of trace whose label is present, in increasing order.
RECURSIVE PresentUpTo(_)
PresentUpTo(k) ==
    IF k = 0 THEN <<>>
    ELSE IF trace[k].label.some THEN Append(PresentUpTo(k - 1), k)
    ELSE PresentUpTo(k - 1)

Present == PresentUpTo(Len(trace))

Window(e) == [from |-> e.from, to |-> e.to]

\* The value v is sum / (2 * count) + 1/2 for the rows R.
IsRescaledAverage(v, R) ==
    /\ v.some
    /\ v.den > 0
    /\ v.num * 2 * Cardinality(R) = (SumN(R) + Cardinality(R)) * v.den

-----------------------------------------------------------------------------
(* C1: when fetch_data(d, n) returns, the two sequences have the same      *)
(* length, at most n (0 for n <= 0), equal to the number of days whose     *)
(* fetch_label result was present; entry k of both comes from the k-th     *)
(* such day, in chronological order.                                       *)
C1_ParallelSequences ==
    pc = "returned" =>
        /\ Len(x_data_list) = Len(label_list)
        /\ Len(trace) = IF args.days > 0 THEN args.days ELSE 0
        /\ Len(label_list) <= Len(trace)
        /\ Len(label_list) = Cardinality({k \in DOMAIN trace : trace[k].label.some})
        /\ args.days <= 0 => x_data_list = <<>> /\ label_list = <<>>
        /\ \A j \in DOMAIN label_list :
              LET e == trace[Present[j]]
              IN  /\ label_list[j] = e.label
                  /\ IsRescaledAverage(label_list[j], Ratings(Window(e)))
                  /\ x_data_list[j] = fetch_x_data(e.from, e.to)
                  /\ e.from = timestamp(args.date_from + (Present[j] - 1) * Day)
        /\ \A j \in DOMAIN label_list : \A k \in DOMAIN label_list :
              j < k => trace[Present[j]].from < trace[Present[k]].from

C1_Witness ==
    /\ pc = "returned"
    /\ args.days = MaxDays
    /\ Len(label_list) = 2
    /\ label_list[1] # label_list[2]
    /\ x_data_list[1] # x_data_list[2]

(* C2: a day whose window end is later than the clock reading taken when   *)
(* its label is computed gets no label and no entry in either output       *)
(* sequence, whatever the store holds.                                     *)
C2_FutureDaysExcluded ==
    \A k \in DOMAIN trace :
        trace[k].at < trace[k].to =>
            /\ ~trace[k].label.some
            /\ \A j \in DOMAIN origin : origin[j] # Window(trace[k])
            /\ Len(label_list) = Len(origin) /\ Len(x_data_list) = Len(origin)

C2_Witness ==
    /\ pc = "returned"
    /\ \E k \in DOMAIN trace :
          /\ trace[k].at < trace[k].to
          /\ RefWeekday(trace[k].to) \notin {5, 6}
          /\ Ratings(Window(trace[k])) # {}
    /\ Len(label_list) > 0

C4_ShortCircuitOrder ==
    /\ \A p \in DOMAIN log :
          /\ RefWeekday(log[p].to) \notin {5, 6}
          /\ log[p].at >= log[p].to
    /\ \A k \in DOMAIN trace :
          (RefWeekday(trace[k].to) \in {5, 6} \/ trace[k].at < trace[k].to) =>
              \A p \in DOMAIN log : Window(log[p]) # Window(trace[k])
    /\ \A p \in DOMAIN log :
          log[p].ev = "execute" =>
              /\ p > 1
              /\ log[p - 1].ev = "get_connection"
              /\ Window(log[p - 1]) = Window(log[p])
    /\ \A w \in {Window(log[p]) : p \in DOMAIN log} :
          LET A == SelectSeq(log, LAMBDA e : Window(e) = w)
          IN  (\E m \in DOMAIN A : A[m].table # "DayRatingType") =>
                  /\ Ratings(w) # {}
                  /\ A[2].ev = "execute"
                  /\ A[2].table = "DayRatingType"
                  /\ \A m \in DOMAIN A : A[m].table # "DayRatingType" => m > 2

C4_Witness ==
    /\ pc = "returned"
    /\ \E k \in DOMAIN trace : RefWeekday(trace[k].to) \in {5, 6}
    /\ \E k \in DOMAIN trace :
          RefWeekday(trace[k].to) \notin {5, 6} /\ trace[k].at < trace[k].to
    /\ \E p \in DOMAIN log : log[p].table = "YrType"

C6_WindowsTile ==
    /\ \A k \in DOMAIN trace :
          /\ trace[k].to - trace[k].from = Day
          /\ trace[k].from = timestamp(args.date_from) + (k - 1) * Day
          /\ k > 1 => trace[k].from = trace[k - 1].to
    /\ \A r \in store :
          (trace # <<>> /\ trace[1].from <= r.timestamp
              /\ r.timestamp < trace[Len(trace)].to) =>
              Cardinality({k \in DOMAIN trace :
                              r \in Select(r.table, trace[k].from, trace[k].to)}) = 1


\* v is the label of the window w.
LabelOf(v, w) ==
    LET R == Ratings(w)
    IN  /\ v.some <=> R # {}
        /\ R # {} =>
              /\ IsRescaledAverage(v, R)
              /\ 0 <= v.num /\ v.num <= v.den
              /\ SumN(R) = -Cardinality(R) => v.num = 0
              /\ SumN(R) = 0 => 2 * v.num = v.den
              /\ SumN(R) = Cardinality(R) => v.num = v.den

(* C7: when neither filter applies, fetch_label returns absent exactly     *)
(* when the rating query selects no row, and otherwise (a + 1) / 2 for the *)
(* average a of the selected ratings, a value in [0, 1]: 0 for a = -1,     *)
(* 1/2 for a = 0, 1 for a = 1; a label of 0 is a value, and fetch_data     *)
(* emits it.                                                               *)
C7_LabelRescaled ==
    /\ (labelRet.some /\ labelRet.at >= labelRet.to
           /\ ~(labelRet.skip_weekend /\ RefWeekday(labelRet.to) \in {5, 6})) =>
          LabelOf(labelRet.value, labelRet)
    /\ \A k \in DOMAIN trace :
          (trace[k].at >= trace[k].to /\ RefWeekday(trace[k].to) \notin {5, 6}) =>
              /\ LabelOf(trace[k].label, Window(trace[k]))
              /\ (pc = "returned" /\ trace[k].label.some) =>
                    \E j \in DOMAIN label_list :
                        /\ origin[j] = Window(trace[k])
                        /\ label_list[j] = trace[k].label

C7_Witness ==
    /\ pc = "returned"
    /\ \E j \in DOMAIN label_list : label_list[j].some /\ label_list[j].num = 0
    /\ \E k \in DOMAIN trace :
          /\ trace[k].at >= trace[k].to
          /\ RefWeekday(trace[k].to) \notin {5, 6}
          /\ ~trace[k].label.some

\* No end of a requested day window is reached by the clock after the
\* start of the previous call and up to now.
NoWindowEndPassed ==
    \A k \in DOMAIN trace : ~(last.start < trace[k].to /\ trace[k].to <= now)

(* C8 as stated: a fetch_data call that follows a call with the same       *)
(* arguments on the same store returns the same two sequences.             *)
C8_Stated ==
    (pc = "returned" /\ last.some) =>
        /\ last.args = args
        /\ x_data_list = last.x
        /\ label_list = last.l

(* C8 amended: it returns the same two sequences provided the clock has    *)
(* not reached the end of a requested day window between the start of the  *)
(* first call and the return of the second; no step changes the store or   *)
(* the arguments of a running call.                                        *)
C8_Idempotent ==
    /\ []((pc = "returned" /\ last.some /\ NoWindowEndPassed) =>
            /\ last.args = args
            /\ x_data_list = last.x
            /\ label_list = last.l)
    /\ [][store' = store /\ (pc \in {"loop", "x_data"} => args' = args)]_vars

C8_Witness ==
    /\ pc = "returned"
    /\ last.some
    /\ NoWindowEndPassed
    /\ last.start < start
    /\ Len(label_list) > 0
    /\ \E k \in DOMAIN trace : trace[k].at < trace[k].to

\* The tables of the queries of one day, in the order of the code.
QueryOrder ==
    <<"DayRatingType", "SlackType", "SlackReactionType", "GithubType",
      "EventRatingType", "YrType", "SlackType">>

Executed(w) ==
    LET P == SelectSeq(log, LAMBDA e : e.ev = "execute" /\ Window(e) = w)
    IN  [p \in DOMAIN P |-> P[p].table]

(* C9: when a query fails inside fetch_data the exception leaves the call: *)
(* no feature record and no label is kept for that day, the accumulators   *)
(* have equal length, no later day is processed, no query is issued twice, *)
(* and nothing is returned.                                                *)
C9_FailureIsFatal ==
    /\ (pc = "raised" /\ raised.msg = "execute") => raised.op = "fetch_data"
    /\ (raised.op = "fetch_data" /\ raised.msg = "execute") =>
          LET w == [from |-> timestamp(date_from), to |-> timestamp(date_to)]
          IN  /\ pc = "raised"
              /\ Len(x_data_list) = Len(label_list)
              /\ Len(label_list) = Len(origin)
              /\ \A j \in DOMAIN origin : origin[j].to <= w.from
              /\ \A p \in DOMAIN log : log[p].to <= w.to
              /\ \A k \in DOMAIN trace : trace[k].to <= w.to
              /\ Len(label_list) =
                     Cardinality({k \in DOMAIN trace :
                         trace[k].label.some /\ trace[k].to <= w.from})
              /\ Executed(w) # <<>>
              /\ Executed(w) = SubSeq(QueryOrder, 1, Len(Executed(w)))
              /\ i < args.days
    /\ \A w \in {Window(log[p]) : p \in DOMAIN log} :
          LET E == Executed(w)
          IN  E = SubSeq(QueryOrder, 1, Len(E))

C9_Witness ==
    /\ pc = "raised"
    /\ raised.msg = "execute"
    /\ Len(label_list) = 1
    /\ Len(Executed([from |-> timestamp(date_from), to |-> timestamp(date_to)])) = 4

(* C10: every feature record fetch_data emits has a `weekday` key whose    *)
(* value is the weekday of the end of its window, a value in 0..4.         *)
C10_WeekdayOfWindowEnd ==
    \A j \in DOMAIN x_data_list :
        /\ "weekday" \in DOMAIN x_data_list[j]
        /\ x_data_list[j]["weekday"] = RefWeekday(origin[j].to)
        /\ x_data_list[j]["weekday"] \in 0 .. 4

C10_Witness ==
    /\ pc = "returned"
    /\ \E j \in DOMAIN x_data_list :
          /\ x_data_list[j]["weekday"] = 0
          /\ RefWeekday(origin[j].from) = 6

====
